---- MODULE Spec2Model ----
(***************************************************************************)
(* Model of aZero::DS::SparseSet<IDType, ElementType>                      *)
(* (include/SparseSet.hpp; src/include/SparseSet.h carries the same code   *)
(* under the names Add / Remove / ExtendTo).                               *)
(*                                                                         *)
(* The three std::vectors are sequences; C++ index i is sequence index     *)
(* i + 1.  IDType is an unsigned integer type whose largest value is       *)
(* InvalidIndex, so IDType arithmetic is modulo InvalidIndex + 1.          *)
(* std::vector::at throws std::out_of_range on a bad index: a call that    *)
(* throws keeps the writes made before the throwing statement.             *)
(***************************************************************************)
EXTENDS Integers, Sequences, FiniteSets

\* Width in bits of IDType.  The source admits uint8_t .. uint64_t; the model
\* instantiates the template with a 2-bit unsigned type so that a full sparse
\* table (every identifier of the type in use) is within reach.
IDBits == 2

\* std::numeric_limits<IDType>::max()
InvalidIndex == 2^IDBits - 1

\* Number of distinct non-default element values the callers pass.
NumValues == 2

\* Number of values of IDType: IDType arithmetic wraps modulo this.
Modulus == 2^IDBits

\* Every value of IDType.
IDType == 0..InvalidIndex

\* ElementType{}: the value std::vector::resize fills new slots with.
DefaultElement == 0

\* The element values callers insert.
ElementType == 1..NumValues

VARIABLES
    m_ID_To_Element,   \* sparse table: id -> dense position or InvalidIndex
    m_Element_To_ID,   \* dense identifier array: dense position -> id
    m_Elements,        \* dense element array
    m_CurrentLast,     \* number of live entries (an IDType)
    call,              \* the last public call, its arguments and its outcome
    ref                \* reference partial map id -> value (absent: DefaultElement)

members == <<m_ID_To_Element, m_Element_To_ID, m_Elements, m_CurrentLast>>
vars == <<m_ID_To_Element, m_Element_To_ID, m_Elements, m_CurrentLast, call, ref>>

----------------------------------------------------------------------------
\* std::vector helpers

\* v.at(i) of an index that is in range
At(v, i) == v[i + 1]

\* v.at(i) throws std::out_of_range
AtThrows(v, i) == i >= Len(v)

\* v.at(i) = x
SetAt(v, i, x) == [v EXCEPT ![i + 1] = x]

\* Fault: a vector is never made shorter (shrink_to_fit without resize).
ResizeNeverShrinks(v, n, fill) ==
    IF n <= Len(v) THEN v
    ELSE v \o [k \in 1..(n - Len(v)) |-> fill]

\* v.resize(n, fill)
Resize(v, n, fill) ==
    IF n <= Len(v) THEN SubSeq(v, 1, n)
    ELSE v \o [k \in 1..(n - Len(v)) |-> fill]

\* record of a finished call: threw = left by exception, ok = the bool
\* returned (or "the optional has a value"), pos = dense position the call
\* resolved id to: the slot of the returned element reference, for Erase
\* the slot that held the erased entry (-1: none)
Call(op, id, element, threw, ok, pos) ==
    [op |-> op, id |-> id, element |-> element, threw |-> threw, ok |-> ok, pos |-> pos]

----------------------------------------------------------------------------
\* Queries as functions of the current members

NumSupportedElements == Len(m_ID_To_Element)

\* Fault: the entry is not compared with InvalidIndex.
ExistsRangeOnly(id) == id < Len(m_ID_To_Element)

\* bool Exists(IDType id) const
Exists(id) ==
    IF id >= Len(m_ID_To_Element) THEN FALSE
    ELSE At(m_ID_To_Element, id) # InvalidIndex

\* Get(id) throws std::out_of_range
GetThrows(id) ==
    IF AtThrows(m_ID_To_Element, id) THEN TRUE
    ELSE AtThrows(m_Elements, At(m_ID_To_Element, id))

\* dense position of the element Get(id) returns a reference to
GetIndex(id) == At(m_ID_To_Element, id)

\* GetIfExists(id) throws std::out_of_range
GetIfExistsThrows(id) ==
    Exists(id) /\ AtThrows(m_Elements, At(m_ID_To_Element, id))

\* GetData(): the whole dense element vector
GetData == m_Elements

----------------------------------------------------------------------------
\* Constructors: SparseSet() and SparseSet(IDType numElements)

Init ==
    /\ \E numElements \in IDType :
          m_ID_To_Element = [k \in 1..numElements |-> InvalidIndex]
    /\ m_Element_To_ID = << >>
    /\ m_Elements = << >>
    /\ m_CurrentLast = 0
    /\ call = Call("SparseSet", 0, DefaultElement, FALSE, FALSE, -1)
    /\ ref = [i \in IDType |-> DefaultElement]

----------------------------------------------------------------------------
\* Insert

\* the members when a call returns at once without touching them
NoChange ==
    [sparse |-> m_ID_To_Element, ids |-> m_Element_To_ID,
     elems |-> m_Elements, count |-> m_CurrentLast, threw |-> FALSE, ok |-> FALSE]

\* if (m_CurrentLast < m_Elements.size())
InsertReuses == m_CurrentLast < Len(m_Elements)

\* Fault: the element is always appended, a stale slot is never reused.
InsertElementAlwaysAppends(element) == Append(m_Elements, element)

\* m_Elements.at(m_CurrentLast) = element;  or  m_Elements.push_back(element);
InsertElement(element) ==
    IF InsertReuses THEN SetAt(m_Elements, m_CurrentLast, element)
    ELSE Append(m_Elements, element)

\* m_Element_To_ID.at(m_CurrentLast) throws
InsertIDThrows == InsertReuses /\ AtThrows(m_Element_To_ID, m_CurrentLast)

\* m_Element_To_ID.at(m_CurrentLast) = id;  or  m_Element_To_ID.push_back(id);
InsertID(id) ==
    IF ~InsertReuses THEN Append(m_Element_To_ID, id)
    ELSE IF InsertIDThrows THEN m_Element_To_ID
    ELSE SetAt(m_Element_To_ID, m_CurrentLast, id)

\* Fault: the sparse entry records the position behind the new element.
InsertSparseOffByOne(id) == SetAt(m_ID_To_Element, id, (m_CurrentLast + 1) % Modulus)

\* m_ID_To_Element.at(id) = m_CurrentLast;
InsertSparse(id) == SetAt(m_ID_To_Element, id, m_CurrentLast)

\* Fault: the live count is not advanced.
InsertCountForgotten == m_CurrentLast

\* m_CurrentLast++;
InsertCount == (m_CurrentLast + 1) % Modulus

\* Fault: the sparse write's exception is swallowed and the count advanced.
InsertAbsentCountsAnyway(id, element) ==
    LET threw == InsertIDThrows \/ AtThrows(m_ID_To_Element, id)
    IN  [sparse |-> IF threw THEN m_ID_To_Element ELSE InsertSparse(id),
         ids    |-> InsertID(id),
         elems  |-> InsertElement(element),
         count  |-> InsertCount,
         threw  |-> threw, ok |-> ~threw]

\* the block run when id does not exist
InsertAbsent(id, element) ==
    LET threw == InsertIDThrows \/ AtThrows(m_ID_To_Element, id)
    IN  [sparse |-> IF threw THEN m_ID_To_Element ELSE InsertSparse(id),
         ids    |-> InsertID(id),
         elems  |-> InsertElement(element),
         count  |-> IF threw THEN m_CurrentLast ELSE InsertCount,
         threw  |-> threw, ok |-> ~threw]

\* Fault: the existence test is missing, an existing entry is inserted again.
InsertBodyUnchecked(id, element) == InsertAbsent(id, element)

\* the members after the body of Insert(id, element), and whether it threw
InsertBody(id, element) ==
    IF ~Exists(id) THEN InsertAbsent(id, element) ELSE NoChange

\* the reference map after Insert(id, element): id -> element when absent
RefInsert(id, element) ==
    IF id < NumSupportedElements /\ ref[id] = DefaultElement
    THEN [ref EXCEPT ![id] = element] ELSE ref

\* void Insert(IDType id, const ElementType& element)
Insert(id, element) ==
    \E r \in {InsertBody(id, element)} :
    /\ call' = Call("Insert", id, element, r.threw, FALSE, -1)
    /\ m_ID_To_Element' = r.sparse
    /\ m_Element_To_ID' = r.ids
    /\ m_Elements' = r.elems
    /\ m_CurrentLast' = r.count
    /\ ref' = RefInsert(id, element)

\* bool Insert(IDType id, ElementType&& element)
InsertMove(id, element) ==
    \E r \in {InsertBody(id, element)} :
    /\ call' = Call("InsertMove", id, element, r.threw, r.ok, -1)
    /\ m_ID_To_Element' = r.sparse
    /\ m_Element_To_ID' = r.ids
    /\ m_Elements' = r.elems
    /\ m_CurrentLast' = r.count
    /\ ref' = RefInsert(id, element)

----------------------------------------------------------------------------
\* Erase

\* Fault: off by one, the slot behind the last live entry.
LastIndexOffByOne == m_CurrentLast % Modulus

\* const IDType LastIndex = m_CurrentLast - 1;
LastIndex == (m_CurrentLast - 1) % Modulus

\* const IDType RemovedElementIndex = m_ID_To_Element.at(id);
RemovedElementIndex(id) == At(m_ID_To_Element, id)

\* m_Elements.at(RemovedElementIndex) = std::move(m_Elements.at(LastIndex)) throws
MoveThrows(id) ==
    AtThrows(m_Elements, LastIndex) \/ AtThrows(m_Elements, RemovedElementIndex(id))

\* Fault: the last live element is not moved into the vacated slot.
MoveElementForgotten(id) == m_Elements

\* m_Elements.at(RemovedElementIndex) = std::move(m_Elements.at(LastIndex));
MoveElement(id) ==
    SetAt(m_Elements, RemovedElementIndex(id), At(m_Elements, LastIndex))

\* const IDType LastElementID = m_Element_To_ID.at(LastIndex);
LastElementID == At(m_Element_To_ID, LastIndex)

\* Fault: the moved identifier's sparse entry is not redirected.
PatchSparseForgotten(id) == m_ID_To_Element

\* m_ID_To_Element.at(LastElementID) = RemovedElementIndex;
PatchSparse(id) == SetAt(m_ID_To_Element, LastElementID, RemovedElementIndex(id))

\* Fault: the dense identifier array does not record the moved identifier.
PatchIDForgotten(id) == m_Element_To_ID

\* m_Element_To_ID.at(RemovedElementIndex) = LastElementID;
PatchID(id) == SetAt(m_Element_To_ID, RemovedElementIndex(id), LastElementID)

\* the block  if (RemovedElementIndex != LastIndex) { ... } : the three vectors
\* after it and whether one of its at() calls threw
EraseSwap(id) ==
    LET lastThrow   == AtThrows(m_Element_To_ID, LastIndex)
        sparseThrow == AtThrows(m_ID_To_Element, LastElementID)
        idThrow     == AtThrows(m_Element_To_ID, RemovedElementIndex(id))
    IN  IF RemovedElementIndex(id) = LastIndex
        THEN [sparse |-> m_ID_To_Element, ids |-> m_Element_To_ID,
              elems |-> m_Elements, threw |-> FALSE]
        ELSE IF MoveThrows(id)
        THEN [sparse |-> m_ID_To_Element, ids |-> m_Element_To_ID,
              elems |-> m_Elements, threw |-> TRUE]
        ELSE IF lastThrow \/ sparseThrow
        THEN [sparse |-> m_ID_To_Element, ids |-> m_Element_To_ID,
              elems |-> MoveElement(id), threw |-> TRUE]
        ELSE IF idThrow
        THEN [sparse |-> PatchSparse(id), ids |-> m_Element_To_ID,
              elems |-> MoveElement(id), threw |-> TRUE]
        ELSE [sparse |-> PatchSparse(id), ids |-> PatchID(id),
              elems |-> MoveElement(id), threw |-> FALSE]

\* the block run when id exists
ErasePresent(id) ==
    LET s == EraseSwap(id)
    IN  [sparse |-> IF s.threw THEN s.sparse ELSE SetAt(s.sparse, id, InvalidIndex),
         ids    |-> s.ids,
         elems  |-> s.elems,
         count  |-> IF s.threw THEN m_CurrentLast ELSE LastIndex,
         threw  |-> s.threw, ok |-> ~s.threw]

\* Fault: only the range of id is tested, not whether its entry is InvalidIndex.
EraseBodyRangeOnly(id) ==
    IF id < Len(m_ID_To_Element) THEN ErasePresent(id) ELSE NoChange

\* the members after the body of Erase(id), and whether it threw
EraseBody(id) ==
    IF Exists(id) THEN ErasePresent(id) ELSE NoChange

\* the reference map after Erase(id): id removed
RefErase(id) == [ref EXCEPT ![id] = DefaultElement]

\* bool Erase(IDType id)
Erase(id) ==
    \E r \in {EraseBody(id)} :
    /\ call' = Call("Erase", id, DefaultElement, r.threw, r.ok,
                     IF Exists(id) THEN RemovedElementIndex(id) ELSE -1)
    /\ m_ID_To_Element' = r.sparse
    /\ m_Element_To_ID' = r.ids
    /\ m_Elements' = r.elems
    /\ m_CurrentLast' = r.count
    /\ ref' = RefErase(id)

----------------------------------------------------------------------------
\* Lookups

\* ElementType& Get(IDType id)  (and its const overload)
Get(id) ==
    /\ call' = IF GetThrows(id)
               THEN Call("Get", id, DefaultElement, TRUE, FALSE, -1)
               ELSE Call("Get", id, DefaultElement, FALSE, TRUE, GetIndex(id))
    /\ UNCHANGED <<members, ref>>

\* Fault: the lookup is made without the existence test, as in Get.
GetIfExistsUnchecked(id) ==
    /\ call' = IF GetThrows(id)
               THEN Call("GetIfExists", id, DefaultElement, TRUE, FALSE, -1)
               ELSE Call("GetIfExists", id, DefaultElement, FALSE, TRUE, GetIndex(id))
    /\ UNCHANGED <<members, ref>>

\* std::optional<std::reference_wrapper<ElementType>> GetIfExists(IDType id)
GetIfExists(id) ==
    /\ call' = IF ~Exists(id)
               THEN Call("GetIfExists", id, DefaultElement, FALSE, FALSE, -1)
               ELSE IF GetIfExistsThrows(id)
               THEN Call("GetIfExists", id, DefaultElement, TRUE, FALSE, -1)
               ELSE Call("GetIfExists", id, DefaultElement, FALSE, TRUE,
                         At(m_ID_To_Element, id))
    /\ UNCHANGED <<members, ref>>

\* bool Exists(IDType id) const, called by the user
ExistsCall(id) ==
    /\ call' = Call("Exists", id, DefaultElement, FALSE, Exists(id), -1)
    /\ UNCHANGED <<members, ref>>

----------------------------------------------------------------------------
\* Capacity

\* void ShrinkToFit()
ShrinkToFit ==
    /\ call' = Call("ShrinkToFit", 0, DefaultElement, FALSE, FALSE, -1)
    /\ m_Elements' = Resize(m_Elements, m_CurrentLast, DefaultElement)
    /\ m_Element_To_ID' = Resize(m_Element_To_ID, m_CurrentLast, 0)
    /\ UNCHANGED <<m_ID_To_Element, m_CurrentLast, ref>>

\* Fault: the new slots are value-initialised instead of set to InvalidIndex.
ReserveZeroFilled(numEntries) ==
    /\ call' = Call("Reserve", numEntries, DefaultElement, FALSE, FALSE, -1)
    /\ m_ID_To_Element' = IF numEntries > Len(m_ID_To_Element)
                          THEN Resize(m_ID_To_Element, numEntries, 0)
                          ELSE m_ID_To_Element
    /\ UNCHANGED <<m_Element_To_ID, m_Elements, m_CurrentLast, ref>>

\* Fault: the table is made one slot longer than requested.
ReserveOneMore(numEntries) ==
    /\ call' = Call("Reserve", numEntries, DefaultElement, FALSE, FALSE, -1)
    /\ m_ID_To_Element' = IF numEntries > Len(m_ID_To_Element)
                          THEN Resize(m_ID_To_Element, numEntries + 1, InvalidIndex)
                          ELSE m_ID_To_Element
    /\ UNCHANGED <<m_Element_To_ID, m_Elements, m_CurrentLast, ref>>

\* Fault: the size test is missing, a smaller request truncates the table.
ReserveUnguarded(numEntries) ==
    /\ call' = Call("Reserve", numEntries, DefaultElement, FALSE, FALSE, -1)
    /\ m_ID_To_Element' = Resize(m_ID_To_Element, numEntries, InvalidIndex)
    /\ UNCHANGED <<m_Element_To_ID, m_Elements, m_CurrentLast, ref>>

\* void Reserve(IDType numEntries)
Reserve(numEntries) ==
    /\ call' = Call("Reserve", numEntries, DefaultElement, FALSE, FALSE, -1)
    /\ m_ID_To_Element' = IF numEntries > Len(m_ID_To_Element)
                          THEN Resize(m_ID_To_Element, numEntries, InvalidIndex)
                          ELSE m_ID_To_Element
    /\ UNCHANGED <<m_Element_To_ID, m_Elements, m_CurrentLast, ref>>

----------------------------------------------------------------------------
Next ==
    \/ \E id \in IDType, element \in ElementType : Insert(id, element)
    \/ \E id \in IDType, element \in ElementType : InsertMove(id, element)
    \/ \E id \in IDType : Erase(id)
    \/ \E id \in IDType : Get(id)
    \/ \E id \in IDType : GetIfExists(id)
    \/ \E id \in IDType : ExistsCall(id)
    \/ ShrinkToFit
    \/ \E numEntries \in IDType : Reserve(numEntries)

Spec == Init /\ [][Next]_vars

----------------------------------------------------------------------------
\* aZero::SparseSet of src/include/SparseSet.h.  The members are the same
\* (m_EmptyIndex is InvalidIndex), Get, GetIfExists, Exists and ShrinkToFit
\* are the code modelled above, Add / Remove / ExtendTo are Insert / Erase /
\* Reserve under other names with void results, and the class declares its
\* copy and move operations itself.  The variables describe the object the
\* caller goes on using: after a copy or a move that is the object written.
\* ref keeps the content the member-wise copy of SparseSet.hpp would hold.

\* Greatest number of entries a SparseSet.h object is constructed with or
\* extended to.
MaxEntriesH == 2

\* The identifiers its callers pass: the supported ones and one beyond them.
IDsH == 0..MaxEntriesH

\* Cap on the dense arrays of an object whose count a copy has put out of
\* step (its Add can then append without end): the greatest length the
\* arrays reach without a copy, MaxEntriesH entries and the slot an
\* out-of-range Add appends.
MaxDenseSize == MaxEntriesH + 1

\* the program has not been terminated
Running == call.op # "terminated"

\* SparseSet() = default;  SparseSet(IDType NumElements)
InitH ==
    /\ \E NumElements \in 0..MaxEntriesH :
          m_ID_To_Element = [k \in 1..NumElements |-> InvalidIndex]
    /\ m_Element_To_ID = << >>
    /\ m_Elements = << >>
    /\ m_CurrentLast = 0
    /\ call = Call("SparseSet", 0, DefaultElement, FALSE, FALSE, -1)
    /\ ref = [i \in IDType |-> DefaultElement]

\* void Add(IDType ID, const ElementType& Element)
Add(ID, Element) ==
    \E r \in {InsertBody(ID, Element)} :
    /\ call' = Call("Add", ID, Element, r.threw, FALSE, -1)
    /\ Running
    /\ Len(r.elems) <= MaxDenseSize
    /\ m_ID_To_Element' = r.sparse
    /\ m_Element_To_ID' = r.ids
    /\ m_Elements' = r.elems
    /\ m_CurrentLast' = r.count
    /\ ref' = RefInsert(ID, Element)

\* void Add(IDType ID, ElementType&& Element)
AddMove(ID, Element) ==
    \E r \in {InsertBody(ID, Element)} :
    /\ call' = Call("AddMove", ID, Element, r.threw, FALSE, -1)
    /\ Running
    /\ Len(r.elems) <= MaxDenseSize
    /\ m_ID_To_Element' = r.sparse
    /\ m_Element_To_ID' = r.ids
    /\ m_Elements' = r.elems
    /\ m_CurrentLast' = r.count
    /\ ref' = RefInsert(ID, Element)

\* void Remove(IDType ID)
Remove(ID) ==
    \E r \in {EraseBody(ID)} :
    /\ call' = Call("Remove", ID, DefaultElement, r.threw, FALSE,
                     IF Exists(ID) THEN RemovedElementIndex(ID) ELSE -1)
    /\ Running
    /\ m_ID_To_Element' = r.sparse
    /\ m_Element_To_ID' = r.ids
    /\ m_Elements' = r.elems
    /\ m_CurrentLast' = r.count
    /\ ref' = RefErase(ID)

\* void ExtendTo(IDType NumEntries)
ExtendTo(NumEntries) ==
    /\ call' = Call("ExtendTo", NumEntries, DefaultElement, FALSE, FALSE, -1)
    /\ Running
    /\ m_ID_To_Element' = IF NumEntries > Len(m_ID_To_Element)
                          THEN Resize(m_ID_To_Element, NumEntries, InvalidIndex)
                          ELSE m_ID_To_Element
    /\ UNCHANGED <<m_Element_To_ID, m_Elements, m_CurrentLast, ref>>

\* The object copied or moved from is one built by Add, Remove, ExtendTo and
\* ShrinkToFit: its count is the number of its entries, every entry lies below
\* the count and the dense identifier array names it.
SourceIntact ==
    /\ Running
    /\ m_CurrentLast <= Len(m_Elements)
    /\ Len(m_Element_To_ID) = Len(m_Elements)
    /\ m_CurrentLast = Cardinality({ID \in IDType : Exists(ID)})
    /\ \A ID \in IDType :
          Exists(ID) => /\ At(m_ID_To_Element, ID) < m_CurrentLast
                        /\ At(m_Element_To_ID, At(m_ID_To_Element, ID)) = ID

\* SparseSet(const SparseSet& Other): the three vectors are assigned from
\* Other; m_CurrentLast is not, the new object keeps its initialiser 0.
CopyConstruct ==
    /\ call' = Call("CopyConstruct", 0, DefaultElement, FALSE, FALSE, -1)
    /\ SourceIntact
    /\ m_CurrentLast' = 0
    /\ UNCHANGED <<m_ID_To_Element, m_Element_To_ID, m_Elements, ref>>

\* SparseSet(SparseSet&& Other) noexcept: the three vectors are moved from
\* Other; m_CurrentLast is not taken over.
MoveConstruct ==
    /\ call' = Call("MoveConstruct", 0, DefaultElement, FALSE, FALSE, -1)
    /\ SourceIntact
    /\ m_CurrentLast' = 0
    /\ UNCHANGED <<m_ID_To_Element, m_Element_To_ID, m_Elements, ref>>

\* SparseSet& operator=(const SparseSet& Other), called on an object whose
\* count is targetLast (a set of up to MaxEntriesH entries): the three
\* vectors are assigned, m_CurrentLast keeps the target's value.  The function has no return statement; flowing off
\* its end is undefined: the build either returns to the caller or runs into
\* a trap that terminates the program.
CopyAssign(targetLast) ==
    /\ \E trapped \in BOOLEAN :
          call' = Call(IF trapped THEN "terminated" ELSE "CopyAssign",
                       targetLast, DefaultElement, FALSE, FALSE, -1)
    /\ SourceIntact
    /\ m_CurrentLast' = targetLast
    /\ UNCHANGED <<m_ID_To_Element, m_Element_To_ID, m_Elements, ref>>

\* SparseSet& operator=(SparseSet&& Other) noexcept: as the copy assignment,
\* with the vectors moved; no return statement either.
MoveAssign(targetLast) ==
    /\ \E trapped \in BOOLEAN :
          call' = Call(IF trapped THEN "terminated" ELSE "MoveAssign",
                       targetLast, DefaultElement, FALSE, FALSE, -1)
    /\ SourceIntact
    /\ m_CurrentLast' = targetLast
    /\ UNCHANGED <<m_ID_To_Element, m_Element_To_ID, m_Elements, ref>>

NextH ==
    \/ \E ID \in IDsH, Element \in ElementType : Add(ID, Element)
    \/ \E ID \in IDsH, Element \in ElementType : AddMove(ID, Element)
    \/ \E ID \in IDsH : Remove(ID)
    \/ \E ID \in IDsH : Running /\ Get(ID)
    \/ \E ID \in IDsH : Running /\ GetIfExists(ID)
    \/ \E ID \in IDsH : Running /\ ExistsCall(ID)
    \/ Running /\ ShrinkToFit
    \/ \E NumEntries \in 0..MaxEntriesH : ExtendTo(NumEntries)
    \/ CopyConstruct
    \/ MoveConstruct
    \/ \E targetLast \in 0..MaxEntriesH : CopyAssign(targetLast)
    \/ \E targetLast \in 0..MaxEntriesH : MoveAssign(targetLast)

SpecH == InitH /\ [][NextH]_vars

----------------------------------------------------------------------------
\* Properties

\* A property of one call is an action formula over the transitions of that
\* call's action; the conjunct call'.id = id repeats what the action itself
\* sets and only spares evaluating the action for the other identifiers.

\* The identifiers that exist.
Live == {id \in IDType : Exists(id)}

\* C1: sparse-to-dense consistency.  Every identifier whose sparse entry pos
\* is not InvalidIndex has pos < m_CurrentLast and m_Element_To_ID[pos] = id.
SparseToDenseConsistent ==
    \A id \in IDType :
        (id < Len(m_ID_To_Element) /\ At(m_ID_To_Element, id) # InvalidIndex) =>
            LET pos == At(m_ID_To_Element, id)
            IN  /\ pos < m_CurrentLast
                /\ pos < Len(m_Element_To_ID)
                /\ At(m_Element_To_ID, pos) = id

\* An Erase has just moved the last entry into a vacated slot, two entries
\* remain and a stale slot lies behind them.
SparseToDenseWitness ==
    /\ call.op = "Erase" /\ call.ok
    /\ call.pos < m_CurrentLast
    /\ m_CurrentLast = 2
    /\ Len(m_Element_To_ID) > m_CurrentLast

\* C2: dense-to-sparse consistency.  Every live dense position pos holds an
\* identifier inside the sparse table whose sparse entry is pos.
DenseToSparseConsistent ==
    \A pos \in 0..(m_CurrentLast - 1) :
        /\ pos < Len(m_Element_To_ID)
        /\ At(m_Element_To_ID, pos) < Len(m_ID_To_Element)
        /\ At(m_ID_To_Element, At(m_Element_To_ID, pos)) = pos

\* After erasures left a stale slot, an Insert has reused it and the set
\* again holds every identifier of a full-width table.
DenseToSparseWitness ==
    /\ call.op = "InsertMove" /\ call.ok
    /\ m_CurrentLast = InvalidIndex
    /\ Len(m_ID_To_Element) = InvalidIndex
    /\ At(m_Element_To_ID, 0) # 0

\* C3: the set refines the reference map.  Exists(id) holds exactly for the
\* identifiers of the reference map, and Get(id) returns the map's value.
RefinesReferenceMap ==
    \A id \in IDType :
        /\ Exists(id) <=> ref[id] # DefaultElement
        /\ Exists(id) => /\ ~GetThrows(id)
                         /\ At(m_Elements, GetIndex(id)) = ref[id]

\* An Erase has swapped, and identifiers holding different values remain
\* next to an absent one.
RefinesReferenceMapWitness ==
    /\ call.op = "Erase" /\ call.ok /\ call.pos < m_CurrentLast
    /\ \E a, b \in Live : ref[a] # ref[b]
    /\ \E c \in IDType : c < NumSupportedElements /\ ~Exists(c)

\* C4: hole-free live prefix.  m_CurrentLast is the number of existing
\* identifiers; positions [0, m_CurrentLast) hold the values of existing
\* identifiers, each identifier at one position only.
HoleFreeLivePrefix ==
    /\ m_CurrentLast = Cardinality(Live)
    /\ m_CurrentLast <= Len(m_Elements)
    /\ \A pos \in 0..(m_CurrentLast - 1) :
          /\ At(m_Element_To_ID, pos) \in Live
          /\ At(m_Elements, pos) = ref[At(m_Element_To_ID, pos)]
    /\ \A p, q \in 0..(m_CurrentLast - 1) :
          p # q => At(m_Element_To_ID, p) # At(m_Element_To_ID, q)

\* Entries were erased from the front and from the back: one entry is left
\* in front of two stale slots.
HoleFreeLivePrefixWitness ==
    /\ call.op = "Erase" /\ call.ok
    /\ m_CurrentLast = 1
    /\ Len(m_Elements) = 3
    /\ At(m_Elements, 0) # At(m_Elements, 1)
\* C5: idempotent insert.  Either Insert overload on an existing identifier
\* changes no member (the stored value stays, whatever value is passed), does
\* not throw, and the bool overload returns false.
IdempotentInsert ==
    [][\A id \in IDType, element \in ElementType :
          (/\ call'.id = id /\ call'.element = element
           /\ Exists(id)
           /\ Insert(id, element) \/ InsertMove(id, element)) =>
              /\ UNCHANGED members
              /\ At(m_Elements', At(m_ID_To_Element', id)) = ref[id]
              /\ ~call'.threw
              /\ call'.op = "InsertMove" => call'.ok = FALSE]_vars

\* The bool overload was called for an existing identifier with a value
\* other than the stored one, and returned false.
IdempotentInsertWitness ==
    /\ call.op = "InsertMove" /\ ~call.ok /\ ~call.threw
    /\ Exists(call.id)
    /\ At(m_Elements, GetIndex(call.id)) # call.element

\* C6: Erase of an identifier that does not exist (absent, erased before or
\* out of range) returns false without throwing and changes no member, so
\* that m_CurrentLast is not decremented.
EraseAbsentNoOp ==
    [][\A id \in IDType :
          (call'.id = id /\ ~Exists(id) /\ Erase(id)) =>
              /\ UNCHANGED members
              /\ call'.ok = FALSE
              /\ ~call'.threw]_vars

\* Erase returned false for an identifier inside the table while other
\* entries were live and a stale slot was left by an earlier Erase.
EraseAbsentNoOpWitness ==
    /\ call.op = "Erase" /\ ~call.ok /\ ~call.threw
    /\ call.id < NumSupportedElements
    /\ m_CurrentLast >= 1
    /\ Len(m_Elements) > m_CurrentLast

\* C7: swap-and-pop.  Erase of an existing identifier returns true, makes it
\* absent and decrements m_CurrentLast; unless it held the last live slot,
\* the identifier and value of the last live slot move into its slot; no
\* other remaining identifier changes position or value and the dense
\* arrays keep their length.
SwapAndPop ==
    [][\A id \in IDType :
          (call'.id = id /\ Exists(id) /\ Erase(id)) =>
              LET removedPos == At(m_ID_To_Element, id)
                  lastPos    == m_CurrentLast - 1
                  movedId    == At(m_Element_To_ID, lastPos)
              IN  /\ call'.ok /\ ~call'.threw
                  /\ At(m_ID_To_Element', id) = InvalidIndex
                  /\ m_CurrentLast' = m_CurrentLast - 1
                  /\ Len(m_Elements') = Len(m_Elements)
                  /\ Len(m_Element_To_ID') = Len(m_Element_To_ID)
                  /\ Len(m_ID_To_Element') = Len(m_ID_To_Element)
                  /\ removedPos # lastPos =>
                        /\ At(m_Element_To_ID', removedPos) = movedId
                        /\ At(m_Elements', removedPos) = At(m_Elements, lastPos)
                        /\ At(m_ID_To_Element', movedId) = removedPos
                  /\ removedPos = lastPos =>
                        /\ m_Elements' = m_Elements
                        /\ m_Element_To_ID' = m_Element_To_ID
                  /\ \A other \in IDType \ {id, movedId} :
                        other < Len(m_ID_To_Element) =>
                           /\ At(m_ID_To_Element', other) = At(m_ID_To_Element, other)
                           /\ Exists(other) =>
                                 At(m_Elements', At(m_ID_To_Element, other))
                                    = At(m_Elements, At(m_ID_To_Element, other))]_vars

\* Three entries were live, the one in dense slot 0 was erased: the entry of
\* the last slot now sits in slot 0 and two entries remain.
SwapAndPopWitness ==
    /\ call.op = "Erase" /\ call.ok
    /\ call.pos = 0
    /\ m_CurrentLast = 2
    /\ At(m_Element_To_ID, 0) = At(m_Element_To_ID, 2)
    /\ At(m_Element_To_ID, 0) # call.id

\* C8: Exists(id) of any IDType value changes no member and does not throw;
\* it returns true exactly when id is inside the sparse table and its entry
\* is not InvalidIndex.
ExistsRangeSafe ==
    [][\A id \in IDType :
          (call'.id = id /\ ExistsCall(id)) =>
              /\ UNCHANGED members
              /\ ~call'.threw
              /\ id >= NumSupportedElements => call'.ok = FALSE
              /\ call'.ok <=> (\E k \in 1..Len(m_ID_To_Element) :
                                  k = id + 1 /\ m_ID_To_Element[k] # InvalidIndex)]_vars

\* Exists returned false for an identifier beyond the sparse table of a set
\* that holds entries.
ExistsRangeSafeWitness ==
    /\ call.op = "Exists" /\ ~call.ok /\ ~call.threw
    /\ call.id >= NumSupportedElements
    /\ m_CurrentLast >= 1

\* C9: GetIfExists(id) never throws and changes no member; the optional is
\* empty when id is absent or out of range, and otherwise refers to the
\* element Get(id) returns.
GetIfExistsNeverFails ==
    [][\A id \in IDType :
          (call'.id = id /\ GetIfExists(id)) =>
              /\ UNCHANGED members
              /\ ~call'.threw
              /\ call'.ok <=> ref[id] # DefaultElement
              /\ call'.ok => (~GetThrows(id) /\ call'.pos = GetIndex(id))
              /\ ~call'.ok => call'.pos = -1]_vars

\* GetIfExists returned the element of the last live slot of a set whose
\* dense arrays hold stale slots behind it.
GetIfExistsNeverFailsWitness ==
    /\ call.op = "GetIfExists" /\ call.ok /\ ~call.threw
    /\ m_CurrentLast >= 2
    /\ call.pos = m_CurrentLast - 1
    /\ Len(m_Elements) > m_CurrentLast

\* C10: Get(id) of an identifier that does not exist throws.
GetAbsentAlwaysFails ==
    (call.op = "Get" /\ ~Exists(call.id)) => call.threw
\* C11: ShrinkToFit neutrality.  ShrinkToFit leaves m_CurrentLast and the
\* sparse table as they are and makes both dense arrays exactly
\* m_CurrentLast long; for every identifier Exists, Get (whether it throws,
\* and the element it returns) and GetIfExists answer as before.
ShrinkToFitNeutral ==
    [][(call'.op = "ShrinkToFit" /\ ShrinkToFit) =>
          /\ m_CurrentLast' = m_CurrentLast
          /\ m_ID_To_Element' = m_ID_To_Element
          /\ Len(m_Elements') = m_CurrentLast
          /\ Len(m_Element_To_ID') = m_CurrentLast
          /\ \A id \in IDType :
                /\ Exists(id)' = Exists(id)
                /\ GetIfExistsThrows(id)' = GetIfExistsThrows(id)
                /\ GetThrows(id)' = GetThrows(id)
                /\ ~GetThrows(id) =>
                      At(m_Elements', GetIndex(id)) = At(m_Elements, GetIndex(id))]_vars
\* C12: growth monotonicity.  No step of any call makes NumSupportedElements
\* smaller; it changes only in Reserve(numEntries) with numEntries greater
\* than it, and then becomes numEntries.
GrowthMonotone ==
    [][/\ NumSupportedElements' >= NumSupportedElements
       /\ NumSupportedElements' # NumSupportedElements =>
             /\ call'.op = "Reserve"
             /\ call'.id > NumSupportedElements
       /\ \A numEntries \in IDType :
             (call'.id = numEntries /\ Reserve(numEntries)) =>
                NumSupportedElements' = IF numEntries > NumSupportedElements
                                        THEN numEntries
                                        ELSE NumSupportedElements]_vars

\* Reserve was called with the size the table now has, on a set that holds
\* an entry and whose table is not yet full.
GrowthMonotoneWitness ==
    /\ call.op = "Reserve"
    /\ call.id = NumSupportedElements
    /\ m_CurrentLast >= 1
    /\ m_CurrentLast < NumSupportedElements
\* C13 as stated: the sequence GetData() returns is exactly m_CurrentLast
\* long and each of its positions belongs to an existing identifier.
GetDataOnlyLive ==
    /\ Len(GetData) = m_CurrentLast
    /\ \A pos \in 0..(Len(GetData) - 1) :
          \E id \in Live : GetIndex(id) = pos

\* C13, amended: the sequence GetData() returns is at least m_CurrentLast
\* long; each of its first m_CurrentLast positions belongs to an existing
\* identifier and holds that identifier's value; behind them it may carry
\* stale slots, and it is exactly m_CurrentLast long right after ShrinkToFit.
GetDataLivePrefix ==
    /\ Len(GetData) >= m_CurrentLast
    /\ \A pos \in 0..(m_CurrentLast - 1) :
          \E id \in Live : GetIndex(id) = pos /\ At(GetData, pos) = ref[id]
    /\ call.op = "ShrinkToFit" => Len(GetData) = m_CurrentLast

\* An Erase left a stale slot behind a live entry in the sequence GetData()
\* returns.
GetDataLivePrefixWitness ==
    /\ call.op = "Erase" /\ call.ok
    /\ m_CurrentLast >= 1
    /\ Len(GetData) = m_CurrentLast + 1
\* C14: count bounds.  0 <= m_CurrentLast <= length of the dense element
\* array, and the two dense arrays have the same length.
CountBounds ==
    /\ 0 <= m_CurrentLast
    /\ m_CurrentLast <= Len(m_Elements)
    /\ Len(m_Element_To_ID) = Len(m_Elements)

\* An Insert has reused the stale slot an Erase left, while another stale
\* slot remains behind the live entries.
CountBoundsWitness ==
    /\ call.op = "Insert" /\ ~call.threw
    /\ Exists(call.id) /\ GetIndex(call.id) = m_CurrentLast - 1
    /\ m_CurrentLast = 2
    /\ Len(m_Elements) = 3
\* C15: the two implementations behave alike.  ref is the content that
\* SparseSet.hpp holds after the same calls (C3, C4; its copy is member-wise),
\* and NumSupportedElements is the length of the one sparse table.  After
\* every step of SparseSet.h, copies included, the count is the number of
\* identifiers SparseSet.hpp holds, Exists answers as SparseSet.hpp does for
\* every identifier, and Get and GetIfExists return for each identifier held
\* the element SparseSet.hpp returns.
ImplementationsAgree ==
    /\ m_CurrentLast = Cardinality({ID \in IDType : ref[ID] # DefaultElement})
    /\ \A ID \in IDType :
          /\ Exists(ID) <=> ref[ID] # DefaultElement
          /\ ref[ID] # DefaultElement =>
                /\ ~GetThrows(ID)
                /\ ~GetIfExistsThrows(ID)
                /\ At(m_Elements, GetIndex(ID)) = ref[ID]

\* C16: Reserve(numEntries) changes nothing when numEntries is not greater
\* than NumSupportedElements; otherwise the sparse table becomes numEntries
\* long and every new slot is InvalidIndex.  Either way the old sparse
\* entries, both dense arrays and m_CurrentLast stay, so Exists and Get
\* answer as before for the identifiers supported before.
ReserveEffect ==
    [][\A numEntries \in IDType :
          (call'.id = numEntries /\ Reserve(numEntries)) =>
              /\ numEntries <= NumSupportedElements => UNCHANGED members
              /\ numEntries > NumSupportedElements =>
                    /\ Len(m_ID_To_Element') = numEntries
                    /\ \A id \in NumSupportedElements..(numEntries - 1) :
                          /\ At(m_ID_To_Element', id) = InvalidIndex
                          /\ ~Exists(id)'
              /\ SubSeq(m_ID_To_Element', 1, NumSupportedElements) = m_ID_To_Element
              /\ UNCHANGED <<m_Element_To_ID, m_Elements, m_CurrentLast>>
              /\ ~call'.threw
              /\ \A id \in 0..(NumSupportedElements - 1) :
                    /\ Exists(id)' = Exists(id)
                    /\ GetThrows(id)' = GetThrows(id)
                    /\ ~GetThrows(id) =>
                          At(m_Elements', GetIndex(id)') = At(m_Elements, GetIndex(id))]_vars

\* Reserve was called for the full width of the identifier type on a set
\* that holds an entry, and the last slot of the table is free.
ReserveEffectWitness ==
    /\ call.op = "Reserve"
    /\ call.id = InvalidIndex
    /\ NumSupportedElements = InvalidIndex
    /\ m_CurrentLast >= 1
    /\ ~Exists(InvalidIndex - 1)
\* C17: Insert placement and slot reuse.  Insert(id, element) of an absent
\* identifier below NumSupportedElements stores element and id at dense
\* position m_CurrentLast (the old count), sets the sparse entry of id to the
\* old count and raises the count by one; both dense arrays grow by exactly
\* one slot when the old count equals their length and keep their length when
\* it is smaller (the stale slot of an earlier Erase is reused).  No Insert and
\* no Erase step makes a dense array shorter.
InsertPlacement ==
    [][/\ \A id \in IDType, element \in ElementType :
             (/\ call'.id = id /\ call'.element = element
              /\ ~Exists(id) /\ id < NumSupportedElements
              /\ Insert(id, element) \/ InsertMove(id, element)) =>
                 /\ ~call'.threw
                 /\ At(m_Elements', m_CurrentLast) = element
                 /\ At(m_Element_To_ID', m_CurrentLast) = id
                 /\ At(m_ID_To_Element', id) = m_CurrentLast
                 /\ m_CurrentLast' = m_CurrentLast + 1
                 /\ m_CurrentLast = Len(m_Elements) =>
                       /\ Len(m_Elements') = Len(m_Elements) + 1
                       /\ Len(m_Element_To_ID') = Len(m_Element_To_ID) + 1
                 /\ m_CurrentLast < Len(m_Elements) =>
                       /\ Len(m_Elements') = Len(m_Elements)
                       /\ Len(m_Element_To_ID') = Len(m_Element_To_ID)
       /\ call'.op \in {"Insert", "InsertMove", "Erase"} =>
             /\ Len(m_Elements') >= Len(m_Elements)
             /\ Len(m_Element_To_ID') >= Len(m_Element_To_ID)]_vars

\* An absent identifier was inserted into the stale slot an Erase left: the
\* entry sits at the last live position, one slot below the dense length,
\* next to an older entry.
InsertPlacementWitness ==
    /\ call.op \in {"Insert", "InsertMove"} /\ ~call.threw
    /\ Exists(call.id)
    /\ GetIndex(call.id) = m_CurrentLast - 1
    /\ At(m_Elements, m_CurrentLast - 1) = call.element
    /\ At(m_Element_To_ID, m_CurrentLast - 1) = call.id
    /\ m_CurrentLast = 2
    /\ Len(m_Elements) = 2
    /\ \E id \in IDType : id # call.id /\ Exists(id) /\ GetIndex(id) = 0

\* C18: an Insert of an identifier not below NumSupportedElements throws
\* std::out_of_range and is no silent resize: NumSupportedElements, the sparse
\* table and m_CurrentLast stay as they were, Exists and Get answer as before
\* for every identifier, what it wrote lies in a dense slot at or beyond the
\* count, and the sparse/dense consistency of C1 and C2 holds afterwards.
InsertOutOfRangeKeepsLiveState ==
    [][\A id \in IDType, element \in ElementType :
          (/\ call'.id = id /\ call'.element = element
           /\ id >= NumSupportedElements
           /\ Insert(id, element) \/ InsertMove(id, element)) =>
              /\ call'.threw
              /\ NumSupportedElements' = NumSupportedElements
              /\ m_ID_To_Element' = m_ID_To_Element
              /\ m_CurrentLast' = m_CurrentLast
              /\ \A other \in IDType :
                    /\ Exists(other)' = Exists(other)
                    /\ GetThrows(other)' = GetThrows(other)
                    /\ ~GetThrows(other) =>
                          At(m_Elements', GetIndex(other)) = At(m_Elements, GetIndex(other))
              /\ \A pos \in 0..(m_CurrentLast - 1) :
                    /\ At(m_Elements', pos) = At(m_Elements, pos)
                    /\ At(m_Element_To_ID', pos) = At(m_Element_To_ID, pos)
              /\ SparseToDenseConsistent'
              /\ DenseToSparseConsistent']_vars

\* An out-of-range Insert threw on a set with a live entry after it had
\* written its identifier and element into the dense slot behind the count.
InsertOutOfRangeWitness ==
    /\ call.op \in {"Insert", "InsertMove"} /\ call.threw
    /\ call.id >= NumSupportedElements
    /\ m_CurrentLast >= 1
    /\ Len(m_Elements) = m_CurrentLast + 1
    /\ At(m_Element_To_ID, m_CurrentLast) = call.id
    /\ At(m_Elements, m_CurrentLast) = call.element

\* C19: copies preserve the invariants (SparseSet.h).  The object made by the
\* copy constructor or the copy assignment from a set built by Add and Remove
\* has the count of the source, every existing identifier's position is below
\* the count and the count is at most the dense length; and on every object,
\* a copy included, Add leaves the slot of every other existing identifier
\* alone, Remove of an existing identifier succeeds without an out-of-range
\* access and without the count wrapping, and ShrinkToFit keeps every
\* existing entry.
CopyPreservesInvariants ==
    [][/\ call'.op \in {"CopyConstruct", "CopyAssign"} =>
             /\ m_CurrentLast' = m_CurrentLast
             /\ m_CurrentLast' <= Len(m_Elements')
             /\ \A ID \in IDType : Exists(ID)' => GetIndex(ID)' < m_CurrentLast'
       /\ call'.op \in {"Add", "AddMove"} =>
             \A ID \in IDType :
                (ID # call'.id /\ Exists(ID) /\ ~GetThrows(ID)) =>
                   /\ Exists(ID)'
                   /\ GetIndex(ID)' = GetIndex(ID)
                   /\ At(m_Elements', GetIndex(ID)) = At(m_Elements, GetIndex(ID))
                   /\ At(m_Element_To_ID', GetIndex(ID)) = ID
       /\ (call'.op = "Remove" /\ Exists(call'.id)) =>
             /\ ~call'.threw
             /\ m_CurrentLast >= 1
             /\ m_CurrentLast' = m_CurrentLast - 1
       /\ call'.op = "ShrinkToFit" =>
             \A ID \in IDType :
                Exists(ID) => Exists(ID)' /\ ~GetThrows(ID)']_vars

\* C20: the sentinel is never a live value.  In every reachable state the
\* sparse table is at most InvalidIndex = 2^IDBits - 1 long, Exists(InvalidIndex)
\* is false, every identifier the reference map holds has a stored position that is not
\* the sentinel, and m_CurrentLast is the number of identifiers held (never
\* wrapped); no step moves the count by more than one, and
\* Insert(InvalidIndex, element) throws without creating an entry.
SentinelNeverLive ==
    /\ [](/\ Len(m_ID_To_Element) <= 2^IDBits - 1
          /\ ~Exists(InvalidIndex)
          /\ \A id \in IDType :
                ref[id] # DefaultElement =>
                   /\ id < Len(m_ID_To_Element)
                   /\ At(m_ID_To_Element, id) # InvalidIndex
                   /\ At(m_ID_To_Element, id) < m_CurrentLast
          /\ m_CurrentLast = Cardinality({id \in IDType : ref[id] # DefaultElement}))
    /\ [][/\ m_CurrentLast' - m_CurrentLast \in {-1, 0, 1}
          /\ (call'.op \in {"Insert", "InsertMove"} /\ call'.id = InvalidIndex) =>
                /\ call'.threw
                /\ ~Exists(InvalidIndex)'
                /\ m_CurrentLast' = m_CurrentLast
                /\ ref'[InvalidIndex] = DefaultElement]_vars

\* Insert(InvalidIndex, element) threw on a set whose table has the greatest
\* possible length and whose every supported identifier is live, so the count
\* stands at InvalidIndex.
SentinelNeverLiveWitness ==
    /\ call.op \in {"Insert", "InsertMove"} /\ call.id = InvalidIndex /\ call.threw
    /\ Len(m_ID_To_Element) = InvalidIndex
    /\ m_CurrentLast = InvalidIndex
    /\ \A id \in 0..(InvalidIndex - 1) : Exists(id)
====
